---- MODULE Spec2Model ----
(***************************************************************************)
(* Model of rustyscript's worker module (src/worker.rs): Worker<W>, the    *)
(* default InnerWorker::thread serve loop and WorkerPool<W>.               *)
(*                                                                         *)
(* One caller thread drives the public API; every Worker owns one spawned  *)
(* thread.  The three mpsc channels of a Worker are sequences; a channel   *)
(* end that has been dropped is a FALSE flag (caller side) or a terminated *)
(* thread (thread side).                                                   *)
(*                                                                         *)
(* Text is a sequence of characters.  The marker "Stack backtrace" is      *)
(* abbreviated to the two characters <<"S", "B">>; messages that the code  *)
(* never takes apart are kept as one-element sequences.                    *)
(***************************************************************************)
EXTENDS Integers, Sequences, FiniteSets, TLC

\* ------------------------------------------------------------------ bounds
MaxWorkers == 2
MaxSends == 2
MaxCalls == 3
MaxMsgLen == 4
MaxQueries == 3
MaxModules == 2

\* ------------------------------------------------------------- vocabulary
WIds == 0 .. (MaxWorkers - 1)
Bodies == {"qa", "qb"}
PoolBodies == {"qa"}
Chars == {"a", " ", "S", "B"}
Whitespace == {" "}
Marker == <<"S", "B">>
Fallback == <<"Could not start runtime thread">>
SendErrorText == <<"sending on a closed channel">>
RecvErrorText == <<"receiving on a closed channel">>
JoinErrorText == <<"Worker thread panicked">>

RECURSIVE SeqsUpTo(_)
SeqsUpTo(k) ==
    IF k = 0 THEN {<<>>}
    ELSE LET S == SeqsUpTo(k - 1)
         IN  S \cup {Append(s, c) : s \in {t \in S : Len(t) = k - 1}, c \in Chars}

\* What a panicking initializer may carry: a String / &str, or something else.
NoText == [text |-> FALSE, msg |-> <<>>]
Payloads == {NoText} \cup {[text |-> TRUE, msg |-> m] : m \in SeqsUpTo(MaxMsgLen)}

\* Values of crate::Error and of the Ok results, as uniform records.
Val(tag, kind, msg, body, n) ==
    [tag |-> tag, kind |-> kind, msg |-> msg, body |-> body, n |-> n]
None == Val("None", "-", <<>>, "-", 0)
OkUnit == Val("Ok", "Unit", <<>>, "-", 0)
OkNum(k) == Val("Ok", "Num", <<>>, "-", k)
OkBool(b) == Val("Ok", IF b THEN "true" ELSE "false", <<>>, "-", 0)
OkWorker(w) == Val("Ok", "Worker", <<>>, "-", w)
OkPool(k) == Val("Ok", "WorkerPool", <<>>, "-", k)
Panicked == Val("Panic", "-", <<>>, "-", 0)
NoWorker == Val("Ok", "NoWorker", <<>>, "-", 0)
Query(body) == Val("Query", "-", <<>>, body, 0)
Response(body, k) == Val("Ok", "Response", <<>>, body, k)
WorkerHasStopped == Val("Err", "WorkerHasStopped", <<>>, "-", 0)
Runtime(msg) == Val("Err", "Runtime", msg, "-", 0)
\* The errors an initializer returns (any crate::Error, Runtime included).
InitErrors == {Val("Err", "JsError", <<"a">>, "-", 0), Runtime(<<"a">>)}

\* The runtime of a worker: where it is in its life, how many queries it has
\* handled and, for DefaultWorker, its module map and the number of calls
\* made into the interpreter.
NoRuntime == [st |-> "none", handled |-> 0, modules |-> {}, calls |-> 0]
\* Ok((runtime, HashMap::new()))
NewRuntime == [st |-> "live", handled |-> 0, modules |-> {}, calls |-> 0]

VARIABLES
    kind,         \* "pool": a WorkerPool; "worker": one Worker; "default":
                  \* one DefaultWorker
    n_workers,    \* the n_workers argument of WorkerPool::new
    poolSt,       \* "none", "constructing", "ready", "failed", "consumed"
    len,          \* workers.len()
    next_worker,  \* the rotation cursor
    held,         \* indices of the workers whose Rc the caller has cloned
    wst,          \* per worker: "none", "constructing", "alive", "dropped"
    handle,       \* per worker: handle is Some
    tx,           \* per worker: tx is Some (the query sender exists)
    rx,           \* per worker: the response receiver exists and is open
    tpc,          \* per worker: where its thread is
    payload,      \* per worker: the panic payload of its thread
    init_ch,      \* per worker: messages in the init channel
    qch,          \* per worker: queries in flight
    rch,          \* per worker: responses in flight
    cur,          \* per worker: the value its thread holds (query or error)
    runtime,      \* per worker: its runtime, see NoRuntime
    cpc,          \* where the caller is
    cop,          \* the WorkerPool operation the caller is inside of
    cw,           \* the worker the caller's operation is on
    ret,          \* what the caller's last completed operation returned
    newRet,       \* per worker: what Worker::new returned
    ncalls,       \* number of dispatch calls on the pool so far
    sentLog,      \* per worker: the queries send() accepted, in order
    nrecv,        \* per worker: number of successful receive() calls
    picked,       \* the index the latest dispatch call selected
    stopped,      \* the workers on which a Worker::shutdown call has returned
    init_result   \* per worker: what init_runtime returned on its thread

vars == <<kind, n_workers, poolSt, len, next_worker, held, wst, handle, tx, rx,
          tpc, payload, init_ch, qch, rch, cur, runtime, cpc, cop, cw, ret,
          newRet, ncalls, sentLog, nrecv, picked, stopped, init_result>>

poolVars == <<poolSt, len, next_worker>>
fieldVars == <<wst, handle, tx, rx>>
threadVars == <<tpc, payload, cur, runtime>>
chanVars == <<init_ch, qch, rch>>
callVars == <<cpc, cop, cw>>

\* What a call returned: the operation, the worker it was on, the value, and
\* the branch of the code that produced it where the value does not tell.
Ret(op, w, v) == [op |-> op, w |-> w, v |-> v, via |-> "-"]
RetVia(op, w, v, via) == [op |-> op, w |-> w, v |-> v, via |-> via]

\* No call has returned yet, or the caller is inside a call that blocks.
Pending == Ret("-", 0, None)

InitKind(k) ==
    /\ kind = k
    /\ n_workers \in (IF k = "pool" THEN 0 .. MaxWorkers ELSE {1})
    /\ poolSt = "none"
    /\ len = 0
    /\ next_worker = 0
    /\ held = {}
    /\ wst = [w \in WIds |-> "none"]
    /\ handle = [w \in WIds |-> FALSE]
    /\ tx = [w \in WIds |-> FALSE]
    /\ rx = [w \in WIds |-> FALSE]
    /\ tpc = [w \in WIds |-> "none"]
    /\ payload = [w \in WIds |-> NoText]
    /\ init_ch = [w \in WIds |-> <<>>]
    /\ qch = [w \in WIds |-> <<>>]
    /\ rch = [w \in WIds |-> <<>>]
    /\ cur = [w \in WIds |-> None]
    /\ runtime = [w \in WIds |-> NoRuntime]
    /\ cpc = "start"
    /\ cop = "-"
    /\ cw = 0
    /\ ret = Pending
    /\ newRet = [w \in WIds |-> RetVia("-", w, None, "-")]
    /\ ncalls = 0
    /\ sentLog = [w \in WIds |-> <<>>]
    /\ nrecv = [w \in WIds |-> 0]
    /\ picked = 0
    /\ stopped = {}
    /\ init_result = [w \in WIds |-> None]

Init == InitKind("pool")
InitWorker == InitKind("worker")

\* --------------------------------------------------- text of a panic (new)
IsPrefixAt(s, i) ==
    /\ i + Len(Marker) - 1 <= Len(s)
    /\ SubSeq(s, i, i + Len(Marker) - 1) = Marker

\* No truncation at the marker.
SplitFirst_whole(s) == s

\* e.split("Stack backtrace").next(): the text before the first marker, or
\* the whole text when it holds no marker.
SplitFirst(s) ==
    LET hits == {i \in 1 .. Len(s) : IsPrefixAt(s, i)}
    IN  IF hits = {} THEN s
        ELSE SubSeq(s, 1, (CHOOSE i \in hits : \A j \in hits : i <= j) - 1)

RECURSIVE TrimStart(_)
TrimStart(s) ==
    IF s # <<>> /\ Head(s) \in Whitespace THEN TrimStart(Tail(s)) ELSE s

RECURSIVE TrimEnd(_)
TrimEnd(s) ==
    IF s # <<>> /\ s[Len(s)] \in Whitespace
    THEN TrimEnd(SubSeq(s, 1, Len(s) - 1))
    ELSE s

\* str::trim
Trim(s) == TrimEnd(TrimStart(s))

\* join().err().and_then(downcast to String or &str).unwrap_or_else(fallback)
PanicMessage(p) == IF p.text THEN p.msg ELSE Fallback

\* The error Worker::new builds from the payload of a thread that panicked.
StartupError(p) == Runtime(Trim(SplitFirst(PanicMessage(p))))

\* ------------------------------------------------------- the worker thread
\* A channel that hands out its newest message first.
recv_newest(ch) == [msg |-> ch[Len(ch)], rest |-> SubSeq(ch, 1, Len(ch) - 1)]

\* Receiver::recv on a channel that holds messages: the oldest one, and what
\* stays in the channel.
recv(ch) == [msg |-> Head(ch), rest |-> Tail(ch)]

Terminated(w) == tpc[w] \in {"done", "panicked"}

\* W::init_runtime(options) on the spawned thread: Ok(rt), Err(e) or a panic.
init_runtime(w) ==
    /\ tpc[w] = "init"
    /\ \/ /\ tpc' = [tpc EXCEPT ![w] = "init_ok"]
          /\ runtime' = [runtime EXCEPT ![w] = NewRuntime]
          /\ init_result' = [init_result EXCEPT ![w] = OkUnit]
          /\ UNCHANGED <<payload, cur>>
       \/ \E e \in InitErrors :
             /\ tpc' = [tpc EXCEPT ![w] = "init_err"]
             /\ cur' = [cur EXCEPT ![w] = e]
             /\ init_result' = [init_result EXCEPT ![w] = e]
             /\ UNCHANGED <<payload, runtime>>
       \/ \E p \in Payloads :
             /\ tpc' = [tpc EXCEPT ![w] = "panicked"]
             /\ payload' = [payload EXCEPT ![w] = p]
             /\ init_result' = [init_result EXCEPT ![w] = Panicked]
             /\ UNCHANGED <<cur, runtime>>
    /\ UNCHANGED <<kind, n_workers, picked, stopped, poolVars, held, fieldVars,
                   chanVars, callVars, ret, newRet, ncalls, sentLog, nrecv>>

\* The failed initialization is reported, but the closure goes on to serve.
send_init_serve(w) ==
    /\ tpc[w] \in {"init_err", "init_ok"}
    /\ init_ch' = [init_ch EXCEPT ![w] =
                      Append(@, IF tpc[w] = "init_err" THEN cur[w] ELSE None)]
    /\ tpc' = [tpc EXCEPT ![w] = "loop"]
    /\ cur' = [cur EXCEPT ![w] = None]
    /\ UNCHANGED <<kind, n_workers, picked, stopped, init_result, poolVars,
                   held, fieldVars, payload, runtime, qch, rch, callVars, ret,
                   newRet, ncalls, sentLog, nrecv>>

\* itx.send(Some(e)).unwrap(); return   /   itx.send(None).unwrap()
send_init(w) ==
    /\ \/ /\ tpc[w] = "init_err"
          /\ init_ch' = [init_ch EXCEPT ![w] = Append(@, cur[w])]
          /\ tpc' = [tpc EXCEPT ![w] = "returning"]
       \/ /\ tpc[w] = "init_ok"
          /\ init_ch' = [init_ch EXCEPT ![w] = Append(@, None)]
          /\ tpc' = [tpc EXCEPT ![w] = "loop"]
    /\ cur' = [cur EXCEPT ![w] = None]
    /\ UNCHANGED <<kind, n_workers, picked, stopped, init_result, poolVars,
                   held, fieldVars, payload, runtime, qch, rch, callVars, ret,
                   newRet, ncalls, sentLog, nrecv>>

\* The closure returns after the failed initialization; its channel ends drop.
thread_return(w) ==
    /\ tpc[w] = "returning"
    /\ tpc' = [tpc EXCEPT ![w] = "done"]
    /\ UNCHANGED <<kind, n_workers, picked, stopped, init_result, poolVars,
                   held, fieldVars, payload, cur, runtime, chanVars, callVars,
                   ret, newRet, ncalls, sentLog, nrecv>>

\* A serve loop that exits as soon as the sender is gone, whatever is queued.
thread_recv_eager(w) ==
    /\ tpc[w] = "loop"
    /\ \/ /\ qch[w] # <<>>
          /\ tx[w]
          /\ cur' = [cur EXCEPT ![w] = Query(recv(qch[w]).msg)]
          /\ qch' = [qch EXCEPT ![w] = recv(@).rest]
          /\ tpc' = [tpc EXCEPT ![w] = "handling"]
          /\ UNCHANGED runtime
       \/ /\ ~tx[w]
          /\ tpc' = [tpc EXCEPT ![w] = "done"]
          /\ runtime' = [runtime EXCEPT ![w].st = "dropped"]
          /\ UNCHANGED <<cur, qch>>
    /\ UNCHANGED <<kind, n_workers, picked, stopped, init_result, poolVars,
                   held, fieldVars, payload, init_ch, rch, callVars, ret,
                   newRet, ncalls, sentLog, nrecv>>

\* A serve loop that never sees its channel close.
thread_recv_spin(w) ==
    /\ tpc[w] = "loop"
    /\ qch[w] # <<>>
    /\ cur' = [cur EXCEPT ![w] = Query(recv(qch[w]).msg)]
    /\ qch' = [qch EXCEPT ![w] = recv(@).rest]
    /\ tpc' = [tpc EXCEPT ![w] = "handling"]
    /\ UNCHANGED <<kind, n_workers, picked, stopped, init_result, poolVars,
                   held, fieldVars, payload, runtime, init_ch, rch, callVars,
                   ret, newRet, ncalls, sentLog, nrecv>>

\* A serve loop whose exit leaves the runtime behind.
thread_recv_leak(w) ==
    /\ tpc[w] = "loop"
    /\ \/ /\ qch[w] # <<>>
          /\ cur' = [cur EXCEPT ![w] = Query(recv(qch[w]).msg)]
          /\ qch' = [qch EXCEPT ![w] = recv(@).rest]
          /\ tpc' = [tpc EXCEPT ![w] = "handling"]
       \/ /\ qch[w] = <<>>
          /\ ~tx[w]
          /\ tpc' = [tpc EXCEPT ![w] = "done"]
          /\ UNCHANGED <<cur, qch>>
    /\ UNCHANGED <<kind, n_workers, picked, stopped, init_result, poolVars,
                   held, fieldVars, payload, runtime, init_ch, rch, callVars,
                   ret, newRet, ncalls, sentLog, nrecv>>

\* rx.recv() in the serve loop: a query, or Err once the channel is empty and
\* its sender is gone, which ends the loop and the thread.
thread_recv(w) ==
    /\ tpc[w] = "loop"
    /\ \/ /\ qch[w] # <<>>
          /\ cur' = [cur EXCEPT ![w] = Query(recv(qch[w]).msg)]
          /\ qch' = [qch EXCEPT ![w] = recv(@).rest]
          /\ tpc' = [tpc EXCEPT ![w] = "handling"]
          /\ UNCHANGED runtime
       \/ /\ qch[w] = <<>>
          /\ ~tx[w]
          /\ tpc' = [tpc EXCEPT ![w] = "done"]
          /\ runtime' = [runtime EXCEPT ![w].st = "dropped"]
          /\ UNCHANGED <<cur, qch>>
    /\ UNCHANGED <<kind, n_workers, picked, stopped, init_result, poolVars,
                   held, fieldVars, payload, init_ch, rch, callVars, ret,
                   newRet, ncalls, sentLog, nrecv>>

\* A serve loop that answers every query twice.
handle_query_double(w) ==
    /\ tpc[w] = "handling"
    /\ rx[w]
    /\ runtime' = [runtime EXCEPT ![w].handled = @ + 1]
    /\ rch' = [rch EXCEPT ![w] =
                  Append(Append(@, Response(cur[w].body,
                                            runtime[w].handled + 1)),
                         Response(cur[w].body, runtime[w].handled + 1))]
    /\ tpc' = [tpc EXCEPT ![w] = "loop"]
    /\ cur' = [cur EXCEPT ![w] = None]
    /\ UNCHANGED <<kind, n_workers, picked, stopped, init_result, poolVars,
                   held, fieldVars, payload, init_ch, qch, callVars, ret,
                   newRet, ncalls, sentLog, nrecv>>

\* Self::handle_query(&mut runtime, msg), which answers or panics, then
\* tx.send(response).unwrap(), which panics when the receiver is gone.
handle_query(w) ==
    /\ tpc[w] = "handling"
    /\ \/ /\ rx[w]
          /\ runtime' = [runtime EXCEPT ![w].handled = @ + 1]
          /\ rch' = [rch EXCEPT ![w] =
                        Append(@, Response(cur[w].body, runtime[w].handled + 1))]
          /\ tpc' = [tpc EXCEPT ![w] = "loop"]
       \/ /\ ~rx[w]
          /\ runtime' = [runtime EXCEPT ![w].st = "dropped",
                                         ![w].handled = @ + 1]
          /\ tpc' = [tpc EXCEPT ![w] = "panicked"]
          /\ UNCHANGED rch
       \/ /\ runtime' = [runtime EXCEPT ![w].st = "dropped"]
          /\ tpc' = [tpc EXCEPT ![w] = "panicked"]
          /\ UNCHANGED rch
    /\ cur' = [cur EXCEPT ![w] = None]
    /\ UNCHANGED <<kind, n_workers, picked, stopped, init_result, poolVars,
                   held, fieldVars, payload, init_ch, qch, callVars, ret,
                   newRet, ncalls, sentLog, nrecv>>

\* ------------------------------------------------------------ Worker::new
With(f, S, v) == [w \in WIds |-> IF w \in S THEN v ELSE f[w]]

\* Workers that are forgotten rather than dropped: the channel ends stay.
DropWorkers_leak(S) ==
    /\ wst' = With(wst, S, "dropped")
    /\ UNCHANGED <<handle, tx, rx>>

\* Dropping the Workers in S: each handle is detached, each sender and each
\* receiver is dropped (Worker has no Drop impl of its own).
DropWorkers(S) ==
    /\ wst' = With(wst, S, "dropped")
    /\ handle' = With(handle, S, FALSE)
    /\ tx' = With(tx, S, FALSE)
    /\ rx' = With(rx, S, FALSE)

\* WorkerPool::new up to its loop: init_platform, Vec::with_capacity.
WorkerPool_new ==
    /\ kind = "pool"
    /\ cpc = "start"
    /\ poolSt' = "constructing"
    /\ cpc' = "pool_new"
    /\ cop' = "WorkerPool::new"
    /\ UNCHANGED <<kind, n_workers, picked, stopped, init_result, len,
                   next_worker, held, fieldVars, threadVars, chanVars, cw, ret,
                   newRet, ncalls, sentLog, nrecv>>

\* Worker::new up to init_rx.recv(): three channels, the spawn, the struct.
Worker_new(w) ==
    /\ \/ kind # "pool" /\ cpc = "start" /\ w = 0
       \/ kind = "pool" /\ cpc = "pool_new" /\ len < n_workers /\ w = len
    /\ wst' = [wst EXCEPT ![w] = "constructing"]
    /\ handle' = [handle EXCEPT ![w] = TRUE]
    /\ tx' = [tx EXCEPT ![w] = TRUE]
    /\ rx' = [rx EXCEPT ![w] = TRUE]
    /\ tpc' = [tpc EXCEPT ![w] = "init"]
    /\ cpc' = "new_wait"
    /\ cw' = w
    /\ UNCHANGED <<kind, n_workers, picked, stopped, init_result, poolVars,
                   held, payload, cur, runtime, chanVars, cop, ret, newRet,
                   ncalls, sentLog, nrecv>>

\* Worker::new that takes whatever ends the wait for a successful start.
NewOutcome_any(w) == RetVia("Worker::new", w, OkWorker(w), "Ok")

\* What Worker::new returns once init_rx.recv() has returned.
NewOutcome(w) ==
    IF init_ch[w] # <<>>
    THEN IF Head(init_ch[w]) = None
         THEN RetVia("Worker::new", w, OkWorker(w), "Ok")
         ELSE RetVia("Worker::new", w, Head(init_ch[w]), "init_error")
    ELSE RetVia("Worker::new", w,
                StartupError(IF tpc[w] = "panicked" THEN payload[w] ELSE NoText),
                "panic")

\* init_rx.recv() returns: a message, or Err once the thread is gone with
\* the channel empty; in that case the thread is joined for its payload.
Worker_new_recv(w) ==
    /\ cpc = "new_wait"
    /\ cw = w
    /\ init_ch[w] # <<>> \/ Terminated(w)
    /\ LET r == NewOutcome(w)
       IN  /\ newRet' = [newRet EXCEPT ![w] = r]
           /\ init_ch' = [init_ch EXCEPT ![w] = IF @ = <<>> THEN @ ELSE Tail(@)]
           /\ IF r.v.tag = "Ok"
              THEN /\ wst' = [wst EXCEPT ![w] = "alive"]
                   /\ UNCHANGED <<handle, tx, rx, poolSt>>
                   /\ IF kind = "pool"
                      THEN /\ len' = len + 1
                           /\ cpc' = "pool_new"
                           /\ UNCHANGED <<ret, cop>>
                      ELSE /\ cpc' = "idle"
                           /\ ret' = r
                           /\ UNCHANGED <<len, cop>>
              ELSE /\ DropWorkers(IF kind = "pool" THEN 0 .. w ELSE {w})
                   /\ cpc' = "idle"
                   /\ cop' = "-"
                   /\ ret' = IF kind = "pool"
                             THEN Ret("WorkerPool::new", w, r.v)
                             ELSE r
                   /\ poolSt' = IF kind = "pool" THEN "failed" ELSE poolSt
                   /\ UNCHANGED len
    /\ cw' = 0
    /\ UNCHANGED <<kind, n_workers, picked, stopped, init_result, next_worker,
                   held, threadVars, qch, rch, ncalls, sentLog, nrecv>>

\* The loop of WorkerPool::new stops one worker short.
WorkerPool_new_return_early ==
    /\ cpc = "pool_new"
    /\ len + 1 >= n_workers
    /\ poolSt' = "ready"
    /\ next_worker' = 0
    /\ cpc' = "idle"
    /\ cop' = "-"
    /\ ret' = Ret("WorkerPool::new", 0, OkPool(len))
    /\ UNCHANGED <<kind, n_workers, picked, stopped, init_result, len, held,
                   fieldVars, threadVars, chanVars, cw, newRet, ncalls,
                   sentLog, nrecv>>

\* WorkerPool::new after its loop: Ok(Self { workers, next_worker: 0 }).
WorkerPool_new_return ==
    /\ cpc = "pool_new"
    /\ len = n_workers
    /\ poolSt' = "ready"
    /\ next_worker' = 0
    /\ cpc' = "idle"
    /\ cop' = "-"
    /\ ret' = Ret("WorkerPool::new", 0, OkPool(len))
    /\ UNCHANGED <<kind, n_workers, picked, stopped, init_result, len, held,
                   fieldVars, threadVars, chanVars, cw, newRet, ncalls,
                   sentLog, nrecv>>

\* --------------------------------------------------- Worker, after new
RECURSIVE SumLen(_, _)
SumLen(f, S) ==
    IF S = {} THEN 0
    ELSE LET w == CHOOSE x \in S : TRUE IN Len(f[w]) + SumLen(f, S \ {w})

MaySend == SumLen(sentLog, WIds) < MaxSends

\* The caller can name Worker w: its own Worker, or an Rc cloned from the pool.
CanUse(w) ==
    /\ wst[w] = "alive"
    /\ IF kind = "pool" THEN w \in held ELSE w = 0

\* send that does not look at the Option around the sender.
SendRet_unchecked(w) ==
    IF Terminated(w) THEN Runtime(SendErrorText) ELSE OkUnit

\* send that reports every dead worker as stopped.
SendRet_conflated(w) ==
    IF ~tx[w] \/ Terminated(w) THEN WorkerHasStopped ELSE OkUnit

\* Worker::send: what it returns ...
SendRet(w) ==
    IF ~tx[w] THEN WorkerHasStopped
    ELSE IF Terminated(w) THEN Runtime(SendErrorText)
    ELSE OkUnit

\* ... and what it does to the query channel.
send(w, q) ==
    IF SendRet(w) = OkUnit
    THEN /\ qch' = [qch EXCEPT ![w] = Append(@, q)]
         /\ sentLog' = [sentLog EXCEPT ![w] = Append(@, q)]
    ELSE UNCHANGED <<qch, sentLog>>

Worker_send(w, q) ==
    /\ cpc = "idle"
    /\ CanUse(w)
    /\ MaySend
    /\ send(w, q)
    /\ ret' = Ret("send", w, SendRet(w))
    /\ UNCHANGED <<kind, n_workers, picked, stopped, init_result, poolVars,
                   held, fieldVars, threadVars, init_ch, rch, callVars, newRet,
                   ncalls, nrecv>>

\* Worker::receive up to the blocking self.rx.recv().
Worker_receive(w) ==
    /\ cpc = "idle"
    /\ CanUse(w)
    /\ cpc' = "recv_wait"
    /\ cop' = "receive"
    /\ cw' = w
    /\ ret' = Pending
    /\ UNCHANGED <<kind, n_workers, picked, stopped, init_result, poolVars,
                   held, fieldVars, threadVars, chanVars, newRet, ncalls,
                   sentLog, nrecv>>

\* receive that waits for a response and never sees the channel close.
receive_return_blocking(w) ==
    /\ cpc = "recv_wait"
    /\ cw = w
    /\ rch[w] # <<>>
    /\ ret' = Ret(cop, w, recv(rch[w]).msg)
    /\ rch' = [rch EXCEPT ![w] = recv(@).rest]
    /\ nrecv' = [nrecv EXCEPT ![w] = @ + 1]
    /\ cpc' = "idle"
    /\ cop' = "-"
    /\ cw' = 0
    /\ UNCHANGED <<kind, n_workers, picked, stopped, init_result, poolVars,
                   held, fieldVars, threadVars, init_ch, qch, newRet, ncalls,
                   sentLog>>

\* self.rx.recv() returns: the oldest response, or Err once the channel is
\* empty and the thread, which owns the sender, is gone.
receive_return(w) ==
    /\ cpc = "recv_wait"
    /\ cw = w
    /\ \/ /\ rch[w] # <<>>
          /\ ret' = Ret(cop, w, recv(rch[w]).msg)
          /\ rch' = [rch EXCEPT ![w] = recv(@).rest]
          /\ nrecv' = [nrecv EXCEPT ![w] = @ + 1]
       \/ /\ rch[w] = <<>>
          /\ Terminated(w)
          /\ ret' = Ret(cop, w, Runtime(RecvErrorText))
          /\ UNCHANGED <<rch, nrecv>>
    /\ cpc' = "idle"
    /\ cop' = "-"
    /\ cw' = 0
    /\ UNCHANGED <<kind, n_workers, picked, stopped, init_result, poolVars,
                   held, fieldVars, threadVars, init_ch, qch, newRet, ncalls,
                   sentLog>>

\* Entering send_and_await on worker w under the name op: self.send(query)?
\* and then the blocking receive.
send_and_await(op, w, q) ==
    /\ send(w, q)
    /\ IF SendRet(w) = OkUnit
       THEN /\ cpc' = "recv_wait"
            /\ cop' = op
            /\ cw' = w
            /\ ret' = Pending
       ELSE /\ ret' = Ret(op, w, SendRet(w))
            /\ UNCHANGED <<cpc, cop, cw>>

Worker_send_and_await(w, q) ==
    /\ cpc = "idle"
    /\ CanUse(w)
    /\ MaySend
    /\ send_and_await("send_and_await", w, q)
    /\ UNCHANGED <<kind, n_workers, picked, stopped, init_result, poolVars,
                   held, fieldVars, threadVars, init_ch, rch, newRet, ncalls,
                   nrecv>>

\* shutdown that takes the sender and leaves the handle in place.
shutdown_tx_only(w) ==
    /\ tx' = [tx EXCEPT ![w] = FALSE]
    /\ handle' = handle

\* Worker::shutdown on worker w: both Options are taken whatever they hold;
\* when both held something the sender is dropped and the thread is joined.
shutdown(w) ==
    /\ tx' = [tx EXCEPT ![w] = FALSE]
    /\ handle' = [handle EXCEPT ![w] = FALSE]

\* One more Worker::shutdown call on worker w has returned.
Returned(w) == stopped \cup {w}

\* shutdown that joins whatever the Options hold.
ShouldJoin_always(w) == TRUE

\* shutdown that drops the sender and never joins.
ShouldJoin_never(w) == FALSE

\* if let (Some(tx), Some(hnd)) = ...: the body, with its join, runs.
ShouldJoin(w) == tx[w] /\ handle[w]

Worker_shutdown(w) ==
    /\ cpc = "idle"
    /\ CanUse(w)
    /\ shutdown(w)
    /\ UNCHANGED <<wst, rx>>
    /\ IF ShouldJoin(w)
       THEN /\ cpc' = "shutdown_join"
            /\ cop' = "shutdown"
            /\ cw' = w
            /\ ret' = Pending
            /\ UNCHANGED stopped
       ELSE /\ ret' = RetVia("shutdown", w, OkUnit, "no-op")
            /\ stopped' = Returned(w)
            /\ UNCHANGED <<cpc, cop, cw>>
    /\ UNCHANGED <<kind, n_workers, picked, init_result, poolVars, held,
                   threadVars, chanVars, newRet, ncalls, sentLog, nrecv>>

\* join that drops the sender before it waits for the thread.
Worker_join_signalling(w) ==
    /\ cpc = "idle"
    /\ kind = "worker"
    /\ CanUse(w)
    /\ IF handle[w]
       THEN /\ wst' = [wst EXCEPT ![w] = "consumed"]
            /\ tx' = [tx EXCEPT ![w] = FALSE]
            /\ cpc' = "join_wait"
            /\ cop' = "join"
            /\ cw' = w
            /\ ret' = Pending
            /\ UNCHANGED <<handle, rx>>
       ELSE /\ DropWorkers({w})
            /\ ret' = Ret("join", w, OkUnit)
            /\ UNCHANGED <<cpc, cop, cw>>
    /\ UNCHANGED <<kind, n_workers, picked, stopped, init_result, poolVars,
                   held, threadVars, chanVars, newRet, ncalls, sentLog, nrecv>>

\* Worker::join(self): the Worker is consumed; a present handle is joined.
Worker_join(w) ==
    /\ cpc = "idle"
    /\ kind = "worker"
    /\ CanUse(w)
    /\ IF handle[w]
       THEN /\ wst' = [wst EXCEPT ![w] = "consumed"]
            /\ cpc' = "join_wait"
            /\ cop' = "join"
            /\ cw' = w
            /\ ret' = Pending
            /\ UNCHANGED <<handle, tx, rx>>
       ELSE /\ DropWorkers({w})
            /\ ret' = Ret("join", w, OkUnit)
            /\ UNCHANGED <<cpc, cop, cw>>
    /\ UNCHANGED <<kind, n_workers, picked, stopped, init_result, poolVars,
                   held, threadVars, chanVars, newRet, ncalls, sentLog, nrecv>>

\* hnd.join() of Worker::join returns; the rest of the Worker is dropped.
join_return(w) ==
    /\ cpc = "join_wait"
    /\ cw = w
    /\ Terminated(w)
    /\ DropWorkers({w})
    /\ ret' = Ret("join", w, IF tpc[w] = "panicked"
                             THEN Runtime(JoinErrorText)
                             ELSE OkUnit)
    /\ cpc' = "idle"
    /\ cop' = "-"
    /\ cw' = 0
    /\ UNCHANGED <<kind, n_workers, picked, stopped, init_result, poolVars,
                   held, threadVars, chanVars, newRet, ncalls, sentLog, nrecv>>

\* ------------------------------------------------ WorkerPool, after new
\* The for loop of WorkerPool::shutdown lets go of worker w's Rc; the Worker
\* itself is dropped unless the caller still holds a clone.
ReleaseRc(w) ==
    IF w \in held
    THEN UNCHANGED <<wst, rx>>
    ELSE /\ wst' = [wst EXCEPT ![w] = "dropped"]
         /\ rx' = [rx EXCEPT ![w] = FALSE]

\* hnd.join().ok() of Worker::shutdown returns, panicked thread or not.
shutdown_return(w) ==
    /\ cpc = "shutdown_join"
    /\ cw = w
    /\ Terminated(w)
    /\ stopped' = Returned(w)
    /\ IF cop = "WorkerPool::shutdown"
       THEN /\ ReleaseRc(w)
            /\ cpc' = "pool_shutdown"
            /\ cw' = w + 1
            /\ UNCHANGED <<ret, cop>>
       ELSE /\ ret' = RetVia("shutdown", w, OkUnit, "joined")
            /\ cpc' = "idle"
            /\ cop' = "-"
            /\ cw' = 0
            /\ UNCHANGED <<wst, rx>>
    /\ UNCHANGED <<kind, n_workers, picked, init_result, poolVars, held,
                   handle, tx, threadVars, chanVars, newRet, ncalls, sentLog,
                   nrecv>>

WorkerPool_len ==
    /\ cpc = "idle"
    /\ poolSt = "ready"
    /\ ret' = Ret("len", 0, OkNum(len))
    /\ UNCHANGED <<kind, n_workers, picked, stopped, init_result, poolVars,
                   held, fieldVars, threadVars, chanVars, callVars, newRet,
                   ncalls, sentLog, nrecv>>

WorkerPool_is_empty ==
    /\ cpc = "idle"
    /\ poolSt = "ready"
    /\ ret' = Ret("is_empty", 0, OkBool(len = 0))
    /\ UNCHANGED <<kind, n_workers, picked, stopped, init_result, poolVars,
                   held, fieldVars, threadVars, chanVars, callVars, newRet,
                   ncalls, sentLog, nrecv>>

\* worker_by_id that moves the cursor past the worker it hands out.
WorkerPool_worker_by_id_rotating(id) ==
    /\ cpc = "idle"
    /\ poolSt = "ready"
    /\ IF id < len
       THEN /\ ret' = Ret("worker_by_id", id, OkWorker(id))
            /\ held' = held \cup {id}
            /\ next_worker' = (id + 1) % len
       ELSE /\ ret' = Ret("worker_by_id", id, NoWorker)
            /\ UNCHANGED <<held, next_worker>>
    /\ UNCHANGED <<kind, n_workers, picked, stopped, init_result, poolSt, len,
                   fieldVars, threadVars, chanVars, callVars, newRet, ncalls,
                   sentLog, nrecv>>

\* Some(Rc::clone(self.workers.get(id)?))
WorkerPool_worker_by_id(id) ==
    /\ cpc = "idle"
    /\ poolSt = "ready"
    /\ IF id < len
       THEN /\ ret' = Ret("worker_by_id", id, OkWorker(id))
            /\ held' = held \cup {id}
       ELSE /\ ret' = Ret("worker_by_id", id, NoWorker)
            /\ UNCHANGED held
    /\ UNCHANGED <<kind, n_workers, picked, stopped, init_result, poolVars,
                   fieldVars, threadVars, chanVars, callVars, newRet, ncalls,
                   sentLog, nrecv>>

\* The cursor is never moved.
Advance_stuck(c, l) == c

\* The cursor is moved without wrapping.
Advance_nomod(c, l) == c + 1

\* self.next_worker = (self.next_worker + 1) % self.workers.len()
Advance(c, l) == (c + 1) % l

\* The body of next_worker on a pool that has workers.
next_worker_step ==
    /\ picked' = next_worker
    /\ next_worker' = Advance(next_worker, len)
    /\ ncalls' = ncalls + 1
    /\ UNCHANGED <<poolSt, len>>

\* Indexing an empty Vec panics the caller.
IndexPanic(op) ==
    /\ cpc' = "panicked"
    /\ ret' = Ret(op, 0, Val("Panic", "index out of bounds", <<>>, "-", 0))

WorkerPool_next_worker ==
    /\ cpc = "idle"
    /\ poolSt = "ready"
    /\ ncalls < MaxCalls
    /\ IF len = 0
       THEN /\ IndexPanic("next_worker")
            /\ UNCHANGED <<poolVars, ncalls, held, picked>>
       ELSE /\ next_worker_step
            /\ held' = held \cup {next_worker}
            /\ ret' = Ret("next_worker", next_worker, OkWorker(next_worker))
            /\ UNCHANGED cpc
    /\ UNCHANGED <<kind, n_workers, stopped, init_result, fieldVars,
                   threadVars, chanVars, cop, cw, newRet, sentLog, nrecv>>

\* self.next_worker().borrow().send_and_await(query)
WorkerPool_send_and_await(q) ==
    /\ cpc = "idle"
    /\ poolSt = "ready"
    /\ ncalls < MaxCalls
    /\ MaySend
    /\ IF len = 0
       THEN /\ IndexPanic("WorkerPool::send_and_await")
            /\ UNCHANGED <<poolVars, ncalls, qch, sentLog, cop, cw, picked>>
       ELSE /\ next_worker_step
            /\ send_and_await("WorkerPool::send_and_await", next_worker, q)
    /\ UNCHANGED <<kind, n_workers, stopped, init_result, held, fieldVars,
                   threadVars, init_ch, rch, newRet, nrecv>>

\* WorkerPool::shutdown(self) up to its loop: the pool is consumed.
WorkerPool_shutdown ==
    /\ cpc = "idle"
    /\ poolSt = "ready"
    /\ poolSt' = "consumed"
    /\ cpc' = "pool_shutdown"
    /\ cop' = "WorkerPool::shutdown"
    /\ cw' = 0
    /\ ret' = Pending
    /\ UNCHANGED <<kind, n_workers, picked, stopped, init_result, len,
                   next_worker, held, fieldVars, threadVars, chanVars, newRet,
                   ncalls, sentLog, nrecv>>

\* One turn of the loop: worker.borrow_mut().shutdown() on the next worker,
\* or the return once every worker has had its turn.
WorkerPool_shutdown_next ==
    /\ cpc = "pool_shutdown"
    /\ IF cw < len
       THEN /\ shutdown(cw)
            /\ IF ShouldJoin(cw)
               THEN /\ cpc' = "shutdown_join"
                    /\ UNCHANGED <<wst, rx, cw, stopped>>
               ELSE /\ ReleaseRc(cw)
                    /\ cw' = cw + 1
                    /\ stopped' = Returned(cw)
                    /\ UNCHANGED cpc
            /\ UNCHANGED <<ret, cop>>
       ELSE /\ cpc' = "idle"
            /\ cop' = "-"
            /\ ret' = Ret("WorkerPool::shutdown", 0, OkUnit)
            /\ cw' = 0
            /\ UNCHANGED <<fieldVars, stopped>>
    /\ UNCHANGED <<kind, n_workers, picked, init_result, poolVars, held,
                   threadVars, chanVars, newRet, ncalls, sentLog, nrecv>>

\* ------------------------------------------------------------ DefaultWorker
ModuleIds == 0 .. (MaxModules - 1)
\* Option::<ModuleId>::None, and the id slot of a query that carries none.
NoId == -1

\* DefaultWorkerQuery: the variant and the module id it names.
DQuery(op, id) == Val("Query", op, <<>>, "-", id)
ScopedOps == {"CallEntrypoint", "CallFunction", "GetValue"}
DefaultQueries ==
    {DQuery(op, NoId) : op \in {"Eval", "LoadMainModule", "LoadModule"}}
        \cup {DQuery("CallEntrypoint", id) : id \in ModuleIds}
        \cup {DQuery(op, id) : op \in {"CallFunction", "GetValue"},
                               id \in ModuleIds \cup {NoId}}

\* DefaultWorkerResponse
ResponseValue == Val("Ok", "Value", <<>>, "-", 0)
ResponseModuleId(id) == Val("Ok", "ModuleId", <<>>, "-", id)
ResponseError(e) == Val("Ok", "Error", e.msg, e.kind, 0)
ModuleNotFound == Runtime(<<"Module not found">>)
\* An error the interpreter reports.
InterpError == Val("Err", "JsError", <<"a">>, "-", 0)

\* A module map that holds every id.
ModuleGet_any(modules, id) == TRUE

\* modules.get(&id) is Some
ModuleGet(modules, id) == id \in modules

\* A call into the interpreter (eval, call_entrypoint, call_function,
\* get_value): a value or an error, with the runtime used once more.
Interp(rt) ==
    {[resp |-> r, rt |-> [rt EXCEPT !.calls = @ + 1]] :
        r \in {ResponseValue, ResponseError(InterpError)}}

\* runtime.load_module and, on Ok, modules.insert(id, handle).
Load(rt) ==
    {[resp |-> ResponseModuleId(id),
      rt |-> [rt EXCEPT !.calls = @ + 1, !.modules = @ \cup {id}]] :
        id \in ModuleIds}
    \cup {[resp |-> ResponseError(InterpError),
           rt |-> [rt EXCEPT !.calls = @ + 1]]}

NotFound(rt) == {[resp |-> ResponseError(ModuleNotFound), rt |-> rt]}

\* DefaultWorker::handle_query as a function of the runtime and the query:
\* the responses it can give, each with the runtime it leaves.
DefaultWorker_handle_query(rt, q) ==
    CASE q.kind = "Eval" -> Interp(rt)
      [] q.kind \in {"LoadMainModule", "LoadModule"} -> Load(rt)
      [] q.kind = "CallEntrypoint" ->
            IF ModuleGet(rt.modules, q.n) THEN Interp(rt) ELSE NotFound(rt)
      [] q.kind \in {"CallFunction", "GetValue"} ->
            IF q.n = NoId THEN Interp(rt)
            ELSE IF ModuleGet(rt.modules, q.n) THEN Interp(rt)
            ELSE NotFound(rt)

\* The query reaches the interpreter, which may panic.
CallsInterpreter(rt, q) ==
    \E o \in DefaultWorker_handle_query(rt, q) : o.rt.calls # rt.calls

\* The serve loop of a DefaultWorker on a dequeued query: handle_query, then
\* tx.send(response).unwrap().
thread_handle_default(w) ==
    /\ tpc[w] = "handling"
    /\ \/ \E o \in DefaultWorker_handle_query(runtime[w], cur[w].body) :
             IF rx[w]
             THEN /\ runtime' = [runtime EXCEPT ![w] =
                                    [o.rt EXCEPT !.handled = @ + 1]]
                  /\ rch' = [rch EXCEPT ![w] = Append(@, o.resp)]
                  /\ tpc' = [tpc EXCEPT ![w] = "loop"]
             ELSE /\ runtime' = [runtime EXCEPT ![w] =
                                    [o.rt EXCEPT !.handled = @ + 1,
                                                 !.st = "dropped"]]
                  /\ tpc' = [tpc EXCEPT ![w] = "panicked"]
                  /\ UNCHANGED rch
       \/ /\ CallsInterpreter(runtime[w], cur[w].body)
          /\ runtime' = [runtime EXCEPT ![w].st = "dropped",
                                        ![w].calls = @ + 1]
          /\ tpc' = [tpc EXCEPT ![w] = "panicked"]
          /\ UNCHANGED rch
    /\ cur' = [cur EXCEPT ![w] = None]
    /\ UNCHANGED <<kind, n_workers, picked, stopped, init_result, poolVars,
                   held, fieldVars, payload, init_ch, qch, callVars, ret,
                   newRet, ncalls, sentLog, nrecv>>

\* The method of DefaultWorker that sends query q.
MethodOf(q) ==
    CASE q.kind = "Eval" -> "eval"
      [] q.kind = "LoadMainModule" -> "load_main_module"
      [] q.kind = "LoadModule" -> "load_module"
      [] q.kind = "CallEntrypoint" -> "call_entrypoint"
      [] q.kind = "CallFunction" -> "call_function"
      [] q.kind = "GetValue" -> "get_value"

Methods == {MethodOf(q) : q \in DefaultQueries}
Unexpected == Runtime(<<"Unexpected response from the worker">>)
\* serde_json::from_value fails.
DecodeError == Val("Err", "JsonDecode", <<"a">>, "-", 0)

\* The match of a DefaultWorker method on the response it received.
MapResponse(method, r) ==
    IF r.kind = "Error" THEN {Val("Err", r.body, r.msg, "-", 0)}
    ELSE IF method \in {"load_main_module", "load_module"}
    THEN IF r.kind = "ModuleId" THEN {OkNum(r.n)} ELSE {Unexpected}
    ELSE IF r.kind = "Value" THEN {ResponseValue, DecodeError}
    ELSE {Unexpected}

\* eval, load_main_module, load_module, call_entrypoint, call_function and
\* get_value up to the blocking receive: self.0.send_and_await(query).
DefaultWorker_call(q) ==
    /\ kind = "default"
    /\ cpc = "idle"
    /\ CanUse(0)
    /\ Len(sentLog[0]) < MaxQueries
    /\ send_and_await(MethodOf(q), 0, q)
    /\ UNCHANGED <<kind, n_workers, picked, stopped, init_result, poolVars,
                   held, fieldVars, threadVars, init_ch, rch, newRet, ncalls,
                   nrecv>>

\* The receive of such a method returns and the method maps what it got.
DefaultWorker_return ==
    /\ cpc = "recv_wait"
    /\ cop \in Methods
    /\ \/ /\ rch[0] # <<>>
          /\ \E v \in MapResponse(cop, recv(rch[0]).msg) :
                ret' = Ret(cop, 0, v)
          /\ rch' = [rch EXCEPT ![0] = recv(@).rest]
          /\ nrecv' = [nrecv EXCEPT ![0] = @ + 1]
       \/ /\ rch[0] = <<>>
          /\ Terminated(0)
          /\ ret' = Ret(cop, 0, Runtime(RecvErrorText))
          /\ UNCHANGED <<rch, nrecv>>
    /\ cpc' = "idle"
    /\ cop' = "-"
    /\ cw' = 0
    /\ UNCHANGED <<kind, n_workers, picked, stopped, init_result, poolVars,
                   held, fieldVars, threadVars, init_ch, qch, newRet, ncalls,
                   sentLog>>

\* The DefaultWorker goes out of scope: its Worker is dropped.
DefaultWorker_drop ==
    /\ kind = "default"
    /\ cpc = "idle"
    /\ CanUse(0)
    /\ DropWorkers({0})
    /\ ret' = Ret("drop", 0, OkUnit)
    /\ UNCHANGED <<kind, n_workers, picked, stopped, init_result, poolVars,
                   held, threadVars, chanVars, callVars, newRet, ncalls,
                   sentLog, nrecv>>

\* ---------------------------------------------------------- specifications
\* The steps of the worker threads.
ThreadNext ==
    \/ \E w \in WIds : init_runtime(w)
    \/ \E w \in WIds : send_init(w)
    \/ \E w \in WIds : thread_return(w)
    \/ \E w \in WIds : thread_recv(w)
    \/ \E w \in WIds : handle_query(w)

\* A caller that builds a WorkerPool and uses it and the workers it hands out.
Next ==
    \/ WorkerPool_new
    \/ WorkerPool_new_return
    \/ \E w \in WIds : Worker_new(w)
    \/ \E w \in WIds : Worker_new_recv(w)
    \/ \E w \in WIds, q \in PoolBodies : Worker_send(w, q)
    \/ \E w \in WIds : Worker_receive(w)
    \/ \E w \in WIds : receive_return(w)
    \/ \E w \in WIds, q \in PoolBodies : Worker_send_and_await(w, q)
    \/ \E w \in WIds : Worker_shutdown(w)
    \/ \E w \in WIds : shutdown_return(w)
    \/ WorkerPool_len
    \/ WorkerPool_is_empty
    \/ \E id \in 0 .. MaxWorkers : WorkerPool_worker_by_id(id)
    \/ WorkerPool_next_worker
    \/ \E q \in PoolBodies : WorkerPool_send_and_await(q)
    \/ WorkerPool_shutdown
    \/ WorkerPool_shutdown_next
    \/ ThreadNext

Spec == Init /\ [][Next]_vars

\* The steps of the thread of worker w.
ThreadStep(w) ==
    \/ init_runtime(w)
    \/ send_init(w)
    \/ thread_return(w)
    \/ thread_recv(w)
    \/ handle_query(w)

\* The pool's caller, with every worker thread scheduled fairly.
SpecFair == Spec /\ \A w \in WIds : WF_vars(ThreadStep(w))

\* A caller that builds one Worker with Worker::new and uses it.
NextWorker ==
    \/ Worker_new(0)
    \/ Worker_new_recv(0)
    \/ \E q \in Bodies : Worker_send(0, q)
    \/ Worker_receive(0)
    \/ receive_return(0)
    \/ \E q \in Bodies : Worker_send_and_await(0, q)
    \/ Worker_shutdown(0)
    \/ shutdown_return(0)
    \/ Worker_join(0)
    \/ join_return(0)
    \/ ThreadNext

SpecWorker == InitWorker /\ [][NextWorker]_vars

\* The same caller, with the worker threads scheduled fairly and a join
\* returning once the thread it waits for has ended.
SpecWorkerFair ==
    /\ SpecWorker
    /\ WF_vars(ThreadNext)
    /\ WF_vars(shutdown_return(0))

\* A caller that builds one DefaultWorker and uses it.
InitDefault == InitKind("default")

NextDefault ==
    \/ Worker_new(0)
    \/ Worker_new_recv(0)
    \/ \E q \in DefaultQueries : DefaultWorker_call(q)
    \/ DefaultWorker_return
    \/ DefaultWorker_drop
    \/ init_runtime(0)
    \/ send_init(0)
    \/ thread_return(0)
    \/ thread_recv(0)
    \/ thread_handle_default(0)

SpecDefault == InitDefault /\ [][NextDefault]_vars

\* ------------------------------------------------------------------ claims
ReceiveOps == {"receive", "send_and_await", "WorkerPool::send_and_await"}

\* C1: the i-th dispatch call on a pool (i = 0, 1, ..., next_worker and
\* send_and_await calls alike, whatever earlier calls returned) selects the
\* worker with index i mod len, and leaves the cursor on the next index.
C1_RoundRobin ==
    (len > 0 /\ ncalls > 0) =>
        /\ picked = (ncalls - 1) % len
        /\ next_worker = ncalls % len

\* C1 witness: a pool of two whose third dispatch call wrapped around to
\* worker 0, as a send_and_await that failed.
C1_Witness ==
    /\ len = 2
    /\ ncalls = 3
    /\ picked = 0
    /\ ret.op = "WorkerPool::send_and_await"
    /\ ret.v.tag = "Err"

\* C2: the j-th successful receive on a worker returns the response to the
\* j-th query that send accepted on it, and the responses still in flight
\* are those to the following queries, in order.
C2_FifoPerWorker ==
    /\ (ret.op \in ReceiveOps /\ ret.v.kind = "Response") =>
          /\ nrecv[ret.w] \in 1 .. Len(sentLog[ret.w])
          /\ ret.v = Response(sentLog[ret.w][nrecv[ret.w]], nrecv[ret.w])
    /\ \A w \in WIds :
          /\ nrecv[w] + Len(rch[w]) <= Len(sentLog[w])
          /\ \A i \in 1 .. Len(rch[w]) :
                rch[w][i] = Response(sentLog[w][nrecv[w] + i], nrecv[w] + i)

\* C2 witness: two different queries were sent and the second successful
\* receive returned the response to the second one.
C2_Witness ==
    /\ sentLog[0] = <<"qa", "qb">>
    /\ nrecv[0] = 2
    /\ ret = Ret("receive", 0, Response("qb", 2))

\* C3: once a Worker::shutdown call has returned on a worker, a send or a
\* send_and_await on it returns WorkerHasStopped in the same step, leaving
\* the caller free and the query channel as it was.
C3_PostShutdownSend ==
    [][\A w \in WIds, q \in Bodies :
          w \in stopped =>
             /\ Worker_send(w, q) =>
                   /\ ret' = Ret("send", w, WorkerHasStopped)
                   /\ cpc' = "idle"
                   /\ UNCHANGED <<qch, sentLog>>
             /\ Worker_send_and_await(w, q) =>
                   /\ ret' = Ret("send_and_await", w, WorkerHasStopped)
                   /\ cpc' = "idle"
                   /\ UNCHANGED <<qch, sentLog>>]_vars

\* C3 witness: a send on a worker that was shut down has returned.
C3_Witness ==
    /\ 0 \in stopped
    /\ ret = Ret("send", 0, WorkerHasStopped)
    /\ cpc = "idle"

\* C4 as stated: when the initializer returned an error, Worker::new returns
\* that error and the thread has terminated in every state after the return.
C4_AsStated ==
    \A w \in WIds :
        newRet[w].via = "init_error" =>
            /\ newRet[w].v = init_result[w]
            /\ tpc[w] = "done"

\* C4 as amended: when the initializer returned an error, Worker::new returns
\* that error, the thread never holds a runtime nor serves a query, and all
\* it has left to do is return; it may still be running after the return.
C4_InitErrorPropagates ==
    \A w \in WIds :
        newRet[w].via = "init_error" =>
            /\ init_result[w] \in InitErrors
            /\ newRet[w].v = init_result[w]
            /\ tpc[w] \in {"returning", "done"}
            /\ runtime[w].st = "none"
            /\ qch[w] = <<>> /\ rch[w] = <<>>

\* C4 witness: Worker::new has returned the initializer's error while the
\* thread has yet to return.
C4_Witness ==
    /\ newRet[0].via = "init_error"
    /\ ret = newRet[0]
    /\ tpc[0] = "returning"

\* The marker starts at position i of text m.
MarkerAt(m, i) ==
    /\ i >= 1
    /\ i + Len(Marker) - 1 <= Len(m)
    /\ \A j \in 1 .. Len(Marker) : m[i + j - 1] = Marker[j]

\* The first k characters of m are m cut at its first marker (all of m when
\* it holds none).
CutAt(m, k) ==
    /\ k = Len(m) \/ MarkerAt(m, k + 1)
    /\ \A i \in 1 .. k : ~MarkerAt(m, i)

\* r is t without its leading and trailing whitespace.
TrimOf(t, r) ==
    /\ r = <<>> \/ (r[1] \notin Whitespace /\ r[Len(r)] \notin Whitespace)
    /\ \E i \in 1 .. Len(t) + 1 :
          /\ i + Len(r) - 1 <= Len(t)
          /\ r = SubSeq(t, i, i + Len(r) - 1)
          /\ \A j \in 1 .. Len(t) :
                (j < i \/ j > i + Len(r) - 1) => t[j] \in Whitespace

\* C5 as stated: after a panic during initialization Worker::new returns a
\* Runtime error whose text is the panic message cut at the first marker.
C5_AsStated ==
    \A w \in WIds :
        (newRet[w].via = "panic" /\ payload[w].text) =>
            /\ newRet[w].v.kind = "Runtime"
            /\ \E k \in 0 .. Len(payload[w].msg) :
                  /\ CutAt(payload[w].msg, k)
                  /\ newRet[w].v.msg = SubSeq(payload[w].msg, 1, k)

\* C5 as amended: a caller waiting on a thread that panicked during
\* initialization can go on, and Worker::new then returns, without a panic of
\* the caller, a Runtime error whose text is the panic message cut at the
\* first marker and stripped of leading and trailing whitespace, or the
\* fixed fallback when the payload carries no text.
C5_PanicDuringInit ==
    \A w \in WIds :
        /\ (cpc = "new_wait" /\ cw = w /\ tpc[w] = "panicked") =>
              ENABLED Worker_new_recv(w)
        /\ newRet[w].via = "panic" =>
              /\ init_result[w] = Panicked
              /\ tpc[w] = "panicked"
              /\ cpc # "panicked"
              /\ newRet[w].v.tag = "Err"
              /\ newRet[w].v.kind = "Runtime"
              /\ IF payload[w].text
                 THEN \E k \in 0 .. Len(payload[w].msg) :
                         /\ CutAt(payload[w].msg, k)
                         /\ TrimOf(SubSeq(payload[w].msg, 1, k), newRet[w].v.msg)
                 ELSE newRet[w].v.msg = Fallback

\* C5 witness: the panic message held text, whitespace and then the marker,
\* and Worker::new returned the text alone.
C5_Witness ==
    /\ newRet[0].via = "panic"
    /\ payload[0] = [text |-> TRUE, msg |-> <<"a", " ", "S", "B">>]
    /\ ret.v = Runtime(<<"a">>)

\* C6: Worker::new returns exactly the outcome of the initialization on the
\* thread: Ok only when init_runtime returned Ok and the thread went on into
\* its serve loop after sending "no error", the initializer's error when it
\* returned one, the panic-derived error when it panicked; a thread of an Ok
\* worker that has ended did so in the serve loop.
C6_Handshake ==
    \A w \in WIds :
        newRet[w].via # "-" =>
            /\ newRet[w].via \in {"Ok", "init_error", "panic"}
            /\ newRet[w].via = "Ok" <=> init_result[w].tag = "Ok"
            /\ newRet[w].via = "init_error" <=> init_result[w].tag = "Err"
            /\ newRet[w].via = "panic" <=> init_result[w].tag = "Panic"
            /\ newRet[w].via = "Ok" <=> newRet[w].v.tag = "Ok"
            /\ newRet[w].via # "Ok" => newRet[w].v.tag = "Err"
            /\ newRet[w].via = "Ok" =>
                  /\ runtime[w].st # "none"
                  /\ init_ch[w] = <<>>
                  /\ tpc[w] \in {"loop", "handling", "done", "panicked"}
                  /\ tpc[w] = "done" => ~tx[w]
                  /\ tpc[w] = "panicked" => sentLog[w] # <<>>

\* C6 witness: Worker::new has returned Ok and the thread waits for queries.
C6_Witness ==
    /\ newRet[0].via = "Ok"
    /\ ret = newRet[0]
    /\ tpc[0] = "loop"
    /\ wst[0] = "alive"

\* C7: a Worker::shutdown call on a worker on which one has returned before
\* returns in the same step and changes nothing of the worker, its thread,
\* its channels or the pool.
C7_ShutdownIdempotent ==
    [][\A w \in WIds :
          (w \in stopped /\ Worker_shutdown(w)) =>
             /\ ret' = RetVia("shutdown", w, OkUnit, "no-op")
             /\ UNCHANGED <<fieldVars, threadVars, chanVars, poolVars, callVars,
                            held>>]_vars

\* C7 witness: a second shutdown call has returned on a worker.
C7_Witness ==
    /\ 0 \in stopped
    /\ ret = RetVia("shutdown", 0, OkUnit, "no-op")
    /\ cpc = "idle"

\* C8: a live Worker holds its handle iff it holds its sender, neither comes
\* back once absent, and its response receiver stays open.
C8_Lifecycle ==
    /\ [](\A w \in WIds :
             wst[w] = "alive" => (handle[w] <=> tx[w]) /\ rx[w])
    /\ [][\A w \in WIds :
             (wst[w] = "alive" /\ wst'[w] = "alive") =>
                /\ ~tx[w] => ~tx'[w]
                /\ ~handle[w] => ~handle'[w]
                /\ tx'[w] # tx[w] => w \notin stopped]_vars

\* C8 witness: after its shutdown a worker holds neither handle nor sender
\* and a receive on it has returned a response.
C8_Witness ==
    /\ wst[0] = "alive"
    /\ 0 \in stopped
    /\ ~handle[0] /\ ~tx[0] /\ rx[0]
    /\ ret.op = "receive"
    /\ ret.v.kind = "Response"

\* C9: the cursor of a pool that has workers is an index of the pool.
C9_CursorInRange ==
    (poolSt = "ready" /\ len > 0) => next_worker \in 0 .. (len - 1)

\* C9 witness: after two dispatch calls on a pool of two and a worker_by_id
\* call the cursor is back on 0.
C9_Witness ==
    /\ poolSt = "ready"
    /\ len = 2
    /\ ncalls = 2
    /\ next_worker = 0
    /\ ret.op = "worker_by_id"

\* Worker w is as Worker::new returned it: live, thread in its serve loop.
Live(w) ==
    /\ wst[w] = "alive"
    /\ newRet[w].via = "Ok"
    /\ handle[w] /\ tx[w] /\ rx[w]
    /\ tpc[w] = "loop"

\* C10: WorkerPool::new returns a pool of n_workers workers, all live when
\* it returns; len() is n_workers and is_empty() is n_workers = 0 from then
\* on, and no step changes the length of a pool that was returned.
C10_PoolSize ==
    /\ [](/\ cpc = "pool_new" => \A w \in 0 .. (len - 1) : Live(w)
          /\ poolSt = "ready" => len = n_workers
          /\ (ret.op = "WorkerPool::new" /\ ret.v.tag = "Ok") =>
                ret.v = OkPool(n_workers)
          /\ ret.op = "len" => ret.v = OkNum(n_workers)
          /\ ret.op = "is_empty" => ret.v = OkBool(n_workers = 0))
    /\ [][(poolSt = "ready" \/ poolSt = "consumed") => len' = len]_vars

\* C10 witness: len() has returned the size of a pool of MaxWorkers workers.
C10_Witness ==
    /\ poolSt = "ready"
    /\ n_workers = MaxWorkers
    /\ ret = Ret("len", 0, OkNum(MaxWorkers))
    /\ \A w \in WIds : wst[w] = "alive"

\* C11 as stated: on a worker whose thread has terminated, a receive and a
\* send_and_await alike return the oldest response still in flight, or a
\* Runtime error when there is none.
C11_AsStated ==
    [][\A w \in WIds, q \in Bodies :
          (Terminated(w) /\ (receive_return(w) \/ Worker_send_and_await(w, q)))
             => /\ cpc' = "idle"
                /\ IF rch[w] # <<>>
                   THEN ret'.v = Head(rch[w])
                   ELSE ret'.v.kind = "Runtime"]_vars

\* C11 as amended: on a worker whose thread has terminated no call blocks
\* forever.  A receive can always return, and returns the oldest response
\* still in flight or, when there is none, the Runtime error of the closed
\* channel.  A send_and_await returns in the same step with the error of its
\* send (WorkerHasStopped after a shutdown, a Runtime error otherwise) and
\* receives nothing, whatever responses are in flight.
C11_DeadWorkerReceive ==
    /\ [](\A w \in WIds :
             (cpc = "recv_wait" /\ cw = w /\ Terminated(w)) =>
                ENABLED receive_return(w))
    /\ [][\A w \in WIds, q \in Bodies :
             Terminated(w) =>
                /\ receive_return(w) =>
                      /\ cpc' = "idle"
                      /\ IF rch[w] # <<>>
                         THEN ret'.v = Head(rch[w]) /\ rch'[w] = Tail(rch[w])
                         ELSE ret'.v = Runtime(RecvErrorText)
                /\ Worker_send_and_await(w, q) =>
                      /\ cpc' = "idle"
                      /\ ret'.v = IF w \in stopped
                                  THEN WorkerHasStopped
                                  ELSE Runtime(SendErrorText)
                      /\ UNCHANGED <<qch, rch, nrecv>>]_vars

\* C11 witness: after a shutdown the thread has ended, one response had been
\* received, and a further receive returned the error of the closed channel.
C11_Witness ==
    /\ tpc[0] = "done"
    /\ 0 \in stopped
    /\ nrecv[0] = 1
    /\ rch[0] = <<>>
    /\ ret = Ret("receive", 0, Runtime(RecvErrorText))

\* C12: a send returns in the same step; it returns WorkerHasStopped exactly
\* when a Worker::shutdown call has returned on the worker before, a Runtime
\* error when no shutdown was called and the thread has terminated, and Ok
\* otherwise.
C12_DistinctStopErrors ==
    [][\A w \in WIds, q \in Bodies :
          Worker_send(w, q) =>
             /\ cpc' = "idle"
             /\ ret'.op = "send"
             /\ ret'.v = WorkerHasStopped <=> w \in stopped
             /\ (w \notin stopped /\ Terminated(w)) =>
                   ret'.v = Runtime(SendErrorText)
             /\ (w \notin stopped /\ ~Terminated(w)) => ret'.v = OkUnit]_vars

\* C12 witness: a send on a worker that was never shut down and whose thread
\* panicked has returned the Runtime error of the closed channel.
C12_Witness ==
    /\ wst[0] = "alive"
    /\ 0 \notin stopped
    /\ tpc[0] = "panicked"
    /\ ret = Ret("send", 0, Runtime(SendErrorText))

\* C13: no public operation panics the calling thread: the caller is never
\* left panicked, and every operation that has returned gave a value or an
\* error value.
C13_NoCallerPanic ==
    /\ cpc # "panicked"
    /\ ret.v.tag \in {"None", "Ok", "Err"}

\* The caller is inside WorkerPool::shutdown.
InPoolShutdown ==
    /\ cop = "WorkerPool::shutdown"
    /\ cpc \in {"pool_shutdown", "shutdown_join"}

\* C14: WorkerPool::shutdown shuts its workers down in increasing index
\* order, reaching worker i+1 only after Worker::shutdown has returned on
\* worker i with its thread terminated; once it has returned every worker
\* thread of the pool has terminated, and a send on a worker handle the
\* caller holds returns WorkerHasStopped.
C14_PoolShutdown ==
    /\ [](/\ InPoolShutdown =>
                /\ cw \in 0 .. len
                /\ \A w \in 0 .. (cw - 1) :
                      Terminated(w) /\ ~tx[w] /\ ~handle[w] /\ w \in stopped
          /\ (poolSt = "consumed" /\ cpc = "idle") =>
                \A w \in 0 .. (len - 1) :
                   Terminated(w) /\ ~tx[w] /\ w \in stopped)
    /\ [][/\ InPoolShutdown =>
                /\ cw' \in {cw, cw + 1, 0}
                /\ cw' = 0 => (cw = 0 \/ cw = len)
                /\ \A w \in WIds :
                      /\ (tx[w] /\ ~tx'[w]) => w = cw
                      /\ (w \in stopped' /\ w \notin stopped) =>
                            w = cw /\ Terminated(w)
                      /\ (w = cw /\ cw' = cw + 1) =>
                            Terminated(w) /\ w \in stopped'
          /\ \A w \in WIds, q \in PoolBodies :
                (poolSt = "consumed" /\ Worker_send(w, q)) =>
                   ret' = Ret("send", w, WorkerHasStopped)]_vars

\* C14 witness: the shutdown of a pool of two has returned, both threads
\* left their serve loops, and a send on the handle of worker 1, which the
\* caller had obtained from the pool, returned WorkerHasStopped.
C14_Witness ==
    /\ poolSt = "consumed"
    /\ len = 2
    /\ 1 \in held
    /\ tpc[0] = "done" /\ tpc[1] = "done"
    /\ ret = Ret("send", 1, WorkerHasStopped)

\* The thread of worker w is inside the closure with its runtime in hand.
HoldsRuntime(w) == tpc[w] \in {"init_ok", "loop", "handling"}

\* C15: the runtime of a worker exists exactly while its thread is between
\* the successful return of init_runtime and the end of the thread function;
\* it is created once, by that thread's init_runtime step, changed only by
\* steps of that thread, and destroyed once, in the step that ends the
\* thread.
C15_ThreadConfinement ==
    /\ [](\A w \in WIds :
             /\ runtime[w].st = "live" <=> HoldsRuntime(w)
             /\ runtime[w].st = "dropped" =>
                   Terminated(w) /\ init_result[w] = OkUnit
             /\ (Terminated(w) /\ init_result[w] = OkUnit) =>
                   runtime[w].st = "dropped")
    /\ [][\A w \in WIds :
             runtime'[w] # runtime[w] =>
                /\ init_runtime(w) \/ thread_recv(w) \/ handle_query(w)
                /\ runtime[w].st # "dropped"
                /\ runtime[w].st = "none" =>
                      tpc[w] = "init" /\ runtime'[w].st = "live"
                /\ runtime[w].st = "live" =>
                      /\ runtime'[w].st \in {"live", "dropped"}
                      /\ runtime'[w].st = "dropped" <=> Terminated(w)'
                      /\ runtime'[w].st = "live" => tpc[w] = "handling"]_vars

\* C15 witness: in a pool of two the runtime of worker 0 served a query and
\* was destroyed when its thread left the serve loop, while the runtime of
\* worker 1 is still held by its own thread.
C15_Witness ==
    /\ len = 2
    /\ tpc[0] = "done"
    /\ runtime[0].st = "dropped"
    /\ runtime[0].handled = 1
    /\ tpc[1] = "loop"
    /\ runtime[1].st = "live"

\* Query q names a module that the module map does not hold.
ScopedUnknown(q, modules) ==
    /\ q.kind \in ScopedOps
    /\ q.n # NoId
    /\ q.n \notin modules

\* C16: handling a CallEntrypoint, CallFunction or GetValue query whose
\* module id is not in the module map sends the 'Module not found' error
\* response, makes no call into the interpreter, leaves the module map as it
\* was and leaves the thread in its serve loop with its runtime; handling any
\* other query, before or after, goes to the interpreter.
C16_ModuleNotFound ==
    [][\A w \in WIds :
          (thread_handle_default(w) /\ rx[w]) =>
             IF ScopedUnknown(cur[w].body, runtime[w].modules)
             THEN /\ rch'[w] = Append(rch[w], ResponseError(ModuleNotFound))
                  /\ runtime'[w].modules = runtime[w].modules
                  /\ runtime'[w].calls = runtime[w].calls
                  /\ runtime'[w].st = "live"
                  /\ tpc'[w] = "loop"
             ELSE /\ runtime'[w].calls = runtime[w].calls + 1
                  /\ tpc'[w] = "loop" =>
                        /\ Len(rch'[w]) = Len(rch[w]) + 1
                        /\ rch'[w][Len(rch'[w])] # ResponseError(ModuleNotFound)
                        /\ runtime[w].modules \subseteq runtime'[w].modules]_vars

\* C16 witness: module 0 was loaded, a call into module 1 was answered
\* without the interpreter, and the later call into module 0 returned its
\* value.
C16_Witness ==
    /\ sentLog[0] = <<DQuery("LoadModule", NoId), DQuery("CallEntrypoint", 1),
                      DQuery("CallEntrypoint", 0)>>
    /\ runtime[0].modules = {0}
    /\ runtime[0].handled = 3
    /\ runtime[0].calls = 2
    /\ tpc[0] = "loop"
    /\ ret = Ret("call_entrypoint", 0, ResponseValue)

\* C17: worker_by_id(id) returns the worker at index id when id < len and
\* None otherwise, and changes neither the cursor, nor the pool, nor any
\* worker; the cursor of a ready pool depends on the number of dispatch
\* calls alone.
C17_WorkerByIdOutOfRotation ==
    /\ []((poolSt = "ready" /\ len > 0) => next_worker = ncalls % len)
    /\ [][\A id \in 0 .. MaxWorkers :
             WorkerPool_worker_by_id(id) =>
                /\ ret' = Ret("worker_by_id", id,
                              IF id < len THEN OkWorker(id) ELSE NoWorker)
                /\ held' = IF id < len THEN held \cup {id} ELSE held
                /\ UNCHANGED <<poolVars, picked, ncalls, fieldVars,
                               threadVars, chanVars, callVars>>]_vars

\* C17 witness: with the cursor of a pool of two on worker 1 after one
\* dispatch call, worker_by_id(0) returned worker 0 and the cursor stayed.
C17_Witness ==
    /\ poolSt = "ready"
    /\ len = 2
    /\ ncalls = 1
    /\ next_worker = 1
    /\ ret = Ret("worker_by_id", 0, OkWorker(0))

\* C18: a Worker::join that has returned gave the Runtime error 'Worker
\* thread panicked' exactly when the thread of its worker panicked, and Ok
\* exactly when it ended without a panic, whether or not a shutdown came
\* first.
C18_JoinReportsPanics ==
    ret.op = "join" =>
        /\ Terminated(ret.w)
        /\ ret.v = Runtime(JoinErrorText) <=> tpc[ret.w] = "panicked"
        /\ ret.v = OkUnit <=> tpc[ret.w] = "done"

\* The queries the thread of worker w has dequeued, and the responses it has
\* sent, so far.
Dequeued(w) == Len(sentLog[w]) - Len(qch[w])
Responded(w) == nrecv[w] + Len(rch[w])

\* C19: a worker thread has at most one query in hand: the responses it has
\* sent number the queries it has dequeued, or one less while it handles a
\* query or after that query ended the thread; it dequeues a query only when
\* every earlier one has its response, and a handling step sends at most one
\* response.
C19_SerialProcessing ==
    /\ [](\A w \in WIds :
             /\ Responded(w) \in {Dequeued(w) - 1, Dequeued(w)}
             /\ Responded(w) >= 0
             /\ tpc[w] = "handling" <=> cur[w].tag = "Query"
             /\ tpc[w] = "handling" => Responded(w) = Dequeued(w) - 1
             /\ tpc[w] \in {"loop", "done"} => Responded(w) = Dequeued(w))
    /\ [][\A w \in WIds :
             /\ Dequeued(w)' # Dequeued(w) =>
                   /\ thread_recv(w)
                   /\ Dequeued(w)' = Dequeued(w) + 1
                   /\ Responded(w) = Dequeued(w)
                   /\ Responded(w)' = Responded(w)
             /\ Responded(w)' # Responded(w) =>
                   /\ handle_query(w)
                   /\ Responded(w)' = Responded(w) + 1
                   /\ Dequeued(w)' = Dequeued(w)]_vars

\* C19 witness: two queries were sent without waiting; the thread holds the
\* second one, dequeued after the response to the first was sent, which the
\* caller has yet to receive.
C19_Witness ==
    /\ sentLog[0] = <<"qa", "qb">>
    /\ qch[0] = <<>>
    /\ tpc[0] = "handling"
    /\ cur[0] = Query("qb")
    /\ rch[0] = <<Response("qa", 1)>>
    /\ nrecv[0] = 0

\* C20: a Worker::shutdown that found sender and handle waits in its join
\* only for the thread; under fair scheduling it eventually returns, and it
\* returns Ok with the thread out of its serve loop and terminated, also
\* when the thread panicked.
C20_ShutdownTerminates ==
    /\ [](\A w \in WIds :
             /\ (cpc = "shutdown_join" /\ cw = w) => ~tx[w] /\ ~handle[w]
             /\ ret = RetVia("shutdown", w, OkUnit, "joined") =>
                   Terminated(w) /\ w \in stopped)
    /\ [][\A w \in WIds :
             shutdown_return(w) =>
                /\ Terminated(w)
                /\ ret' = RetVia("shutdown", w, OkUnit, "joined")
                /\ cpc' = "idle"]_vars
    /\ \A w \in WIds :
          (cpc = "shutdown_join" /\ cw = w) ~>
             (cpc = "idle" /\ Terminated(w)
                 /\ ret = RetVia("shutdown", w, OkUnit, "joined"))

\* C20 witness: a shutdown called while a query was being served has
\* returned after the thread answered it and left its loop.
C20_Witness ==
    /\ ret = RetVia("shutdown", 0, OkUnit, "joined")
    /\ tpc[0] = "done"
    /\ runtime[0].handled = 1
    /\ rch[0] = <<Response("qa", 1)>>
    /\ cpc = "idle"

\* C21 as stated: once a Worker::shutdown has returned on a worker, every
\* query that send accepted has been handled and has its response, received
\* or in flight.
C21_AsStated ==
    \A w \in stopped :
        /\ qch[w] = <<>>
        /\ nrecv[w] + Len(rch[w]) = Len(sentLog[w])

\* C21 as amended: the thread leaves its serve loop normally only with the
\* query channel empty and every accepted query answered, so a shutdown that
\* returns with the thread ended without a panic leaves one response per
\* query not yet received, in send order; a receive after a shutdown yields
\* the oldest of them and, when none is left, the Runtime error of the
\* closed channel.  A thread that panicked leaves the responses to the
\* queries handled before the panic, and the rest unanswered.
C21_ShutdownDrains ==
    /\ [](\A w \in WIds :
             /\ (tpc[w] = "done" /\ init_result[w] = OkUnit) =>
                   /\ qch[w] = <<>>
                   /\ ~tx[w]
                   /\ nrecv[w] + Len(rch[w]) = Len(sentLog[w])
             /\ w \in stopped =>
                   /\ Terminated(w)
                   /\ nrecv[w] + Len(rch[w]) <= Len(sentLog[w])
                   /\ \A i \in 1 .. Len(rch[w]) :
                         rch[w][i] =
                            Response(sentLog[w][nrecv[w] + i], nrecv[w] + i))
    /\ [][\A w \in WIds :
             /\ (tpc[w] = "loop" /\ tpc'[w] = "done") =>
                   /\ qch[w] = <<>>
                   /\ runtime[w].handled = Len(sentLog[w])
             /\ (w \in stopped /\ receive_return(w)) =>
                   ret'.v = IF rch[w] # <<>>
                            THEN Response(sentLog[w][nrecv[w] + 1],
                                          nrecv[w] + 1)
                            ELSE Runtime(RecvErrorText)]_vars

\* C21 witness: a shutdown has returned after the thread answered both
\* queries; neither response has been received yet.
C21_Witness ==
    /\ ret = RetVia("shutdown", 0, OkUnit, "joined")
    /\ tpc[0] = "done"
    /\ sentLog[0] = <<"qa", "qb">>
    /\ nrecv[0] = 0
    /\ rch[0] = <<Response("qa", 1), Response("qb", 2)>>

\* C22: WorkerPool::new spawns worker w only when workers 0..w-1 have been
\* constructed and no later one exists.  When it fails, it returns the error
\* of the first worker whose construction failed, no worker beyond that one
\* was or will be spawned, the workers constructed before it are dropped
\* with their senders, and their threads eventually leave their serve loops
\* and terminate.
C22_PoolConstructionFailure ==
    /\ [](poolSt = "failed" =>
             /\ ret = Ret("WorkerPool::new", len, newRet[len].v)
             /\ newRet[len].v.tag = "Err"
             /\ newRet[len].via \in {"init_error", "panic"}
             /\ \A v \in WIds :
                   /\ v < len => newRet[v].via = "Ok"
                   /\ v <= len => wst[v] = "dropped" /\ ~tx[v]
                   /\ v > len => wst[v] = "none" /\ tpc[v] = "none")
    /\ [][\A w \in WIds :
             Worker_new(w) =>
                /\ w = len
                /\ poolSt = "constructing"
                /\ \A v \in WIds :
                      /\ v < w => newRet[v].via = "Ok" /\ wst[v] = "alive"
                      /\ v >= w => wst[v] = "none"]_vars
    /\ (poolSt = "failed") ~>
          (\A v \in WIds :
              /\ v < len => tpc[v] = "done"
              /\ v = len => Terminated(v))

\* C22 witness: the second worker of a pool of two failed to initialize;
\* WorkerPool::new returned its error and the thread of worker 0 has left
\* its serve loop.
C22_Witness ==
    /\ n_workers = 2
    /\ poolSt = "failed"
    /\ len = 1
    /\ ret = Ret("WorkerPool::new", 1, init_result[1])
    /\ ret.v \in InitErrors
    /\ tpc[0] = "done"

\* The caller waits in the join of worker w, whose thread idles in its serve
\* loop.
JoinOnIdle(w) ==
    /\ cpc = "join_wait"
    /\ cw = w
    /\ tpc[w] = "loop"
    /\ qch[w] = <<>>

\* C23: a join called on a worker that was never shut down keeps the query
\* sender for as long as it waits, so the thread never leaves its serve loop
\* normally: once the thread idles the join never returns, and a join that
\* found the handle returns only after a panic of the thread.  A join called
\* after a shutdown returns Ok in the same step.
C23_JoinBlocks ==
    /\ [](\A w \in WIds :
             /\ (cpc = "join_wait" /\ cw = w) =>
                   /\ tx[w] /\ handle[w]
                   /\ w \notin stopped
                   /\ tpc[w] # "done"
             /\ JoinOnIdle(w) =>
                   /\ ~ENABLED join_return(w)
                   /\ ~ENABLED ThreadNext)
    /\ [](\A w \in WIds : JoinOnIdle(w) => [](JoinOnIdle(w)))
    /\ [][\A w \in WIds :
             /\ join_return(w) =>
                   /\ tpc[w] = "panicked"
                   /\ ret' = Ret("join", w, Runtime(JoinErrorText))
             /\ (w \in stopped /\ Worker_join(w)) =>
                   /\ cpc' = "idle"
                   /\ ret' = Ret("join", w, OkUnit)]_vars

\* C23 witness: join was called on a worker that was never shut down and
\* whose thread idles in its serve loop; the caller waits.
C23_Witness ==
    /\ JoinOnIdle(0)
    /\ wst[0] = "consumed"
    /\ 0 \notin stopped
    /\ tx[0]
    /\ runtime[0].handled = 1

====
